---- MODULE Spec2Model ----
(***************************************************************************)
(* Model of the vehicle-emission pipeline of iot-greengrass-pipeline:      *)
(*   greengrass/greengrass_component/process_emission.py  (the evaluator)  *)
(*   greengrass/greengrass_component/main-mqtt.py         (the subscriber  *)
(*                                                and the two-sink writer) *)
(*   vehicle-data/lab4_emulator_client.py  (the fleet publisher over MQTT) *)
(*   lab4_emulator_client.py               (the fleet publisher over HTTPS)*)
(*                                                                         *)
(* Numbers.  A Python float is modelled as a fixed-point number counted in *)
(* thousandths (Milli), so 7999.999 is 7999999 and 8000.0 is 8000000; the  *)
(* float NaN is a value of its own.  Rounding of float arithmetic is not   *)
(* modelled.                                                               *)
(***************************************************************************)
EXTENDS Integers, Naturals, Sequences, FiniteSets, TLC

VARIABLES
    pc,               \* position of main(): start, connecting, waiting, done, aborted
    firehose_client,  \* userdata["firehose_client"]: None or FirehoseClient
    pending,          \* messages the transport has received, callback not yet started
    inflight,         \* the message on_message_callback is running for, or NoMessage
    handled,          \* one entry per completed on_message_callback call, in order
    published,        \* sink A: what mqtt_client.publish has sent, in order
    stream,           \* sink B: what put_record has appended, in order
    escaped,          \* an exception has left on_message_callback
    interrupted,      \* KeyboardInterrupt was raised in main()'s wait loop
    ev_in,            \* argument of a direct lambda_handler call
    ev_out,           \* what that call returned or raised, NotRun before it
    arrived,          \* every message the transport has received, in order
    prog,             \* which publisher script runs: "mqtt", "https" or "none"
    fpc,              \* its position: init, prompt, round, sleep, exit0, exit1, raised
    fexc,             \* the exception that ended it, "none" otherwise
    dataset,          \* per device: the number of rows of its CSV, Missing if no file
    certs,            \* per device: what os.path.exists(cert_path) returned
    keys,             \* per device: what os.path.exists(key_path) returned
    next_id,          \* numeric_id of the client-initialisation loop
    clients,          \* the list clients, as device numbers
    connected,        \* devices whose connect() succeeded and not yet disconnected
    disc,             \* devices disconnect() was called for, in order
    cur,              \* position in the round: index of the device publishing
    row,              \* next row of that device
    trace,            \* publishes and pacing delays of the current round, in order
    cmds,             \* number of input lines read
    lastcmd           \* the last input line read, as its characters

pipeVars == <<pc, firehose_client, pending, inflight, handled, published, stream,
              escaped, interrupted, ev_in, ev_out, arrived>>

fleetVars == <<prog, fpc, fexc, dataset, certs, keys, next_id, clients, connected,
               disc, cur, row, trace, cmds, lastcmd>>

vars == <<pipeVars, fleetVars>>

---------------------------------------------------------------------------
(* Bounds of the model *)

\* number of inbound messages of one run
MaxMsgs == 3

\* number of devices of the fleet (the scripts are set up for 10)
NumDevices == 2

\* largest number of rows of a device's CSV
MaxRows == 2

\* number of input lines the publisher reads
MaxCmds == 2

\* thousandths per unit of a reading
Milli == 10 * 10 * 10

---------------------------------------------------------------------------
(* Python and JSON values *)

\* a float: finite (v in thousandths) or NaN
Fin(n) == [t |-> "fin", v |-> n]
NaN == [t |-> "nan", v |-> 0]

\* what event.get(key) can yield for a decoded JSON object
JAbsent == [k |-> "absent", v |-> 0, s |-> ""]     \* key missing: get() gives None
JNull == [k |-> "null", v |-> 0, s |-> ""]         \* JSON null
JNum(n) == [k |-> "num", v |-> n, s |-> ""]        \* JSON number, n thousandths
JBig == [k |-> "big", v |-> 0, s |-> ""]           \* JSON integer above the float range
JNumStr(n) == [k |-> "numstr", v |-> n, s |-> ""]  \* JSON string spelling the number n
JStr(x) == [k |-> "str", v |-> 0, s |-> x]         \* any other JSON string
JBool(b) == [k |-> "bool", v |-> IF b THEN 1 ELSE 0, s |-> ""]
JList(n) == [k |-> "list", v |-> n, s |-> ""]      \* JSON array of n elements

\* Python truth value, as `or` tests it
Truthy(x) ==
    CASE x.k \in {"absent", "null"} -> FALSE
      [] x.k \in {"num", "bool", "list"} -> x.v # 0
      [] x.k = "str" -> x.s # ""
      [] OTHER -> TRUE

\* PyFloat as if float() accepted numbers only: a string raises ValueError
PyFloat_NoStrings(x) ==
    CASE x.k \in {"absent", "null", "list"} -> [exc |-> "TypeError", val |-> Fin(0)]
      [] x.k = "num" -> [exc |-> "none", val |-> Fin(x.v)]
      [] x.k = "bool" -> [exc |-> "none", val |-> Fin(x.v * Milli)]
      [] x.k = "big" -> [exc |-> "OverflowError", val |-> Fin(0)]
      [] OTHER -> [exc |-> "ValueError", val |-> Fin(0)]

\* float(value): the float, or the exception it raises
PyFloat(x) ==
    CASE x.k \in {"absent", "null", "list"} -> [exc |-> "TypeError", val |-> Fin(0)]
      [] x.k = "num" -> [exc |-> "none", val |-> Fin(x.v)]
      [] x.k = "numstr" -> [exc |-> "none", val |-> Fin(x.v)]
      [] x.k = "bool" -> [exc |-> "none", val |-> Fin(x.v * Milli)]
      [] x.k = "big" -> [exc |-> "OverflowError", val |-> Fin(0)]
      [] x.k = "str" /\ x.s = "nan" -> [exc |-> "none", val |-> NaN]
      [] OTHER -> [exc |-> "ValueError", val |-> Fin(0)]

\* a >= b on floats: false whenever NaN is involved
FloatGE(a, b) == a.t = "fin" /\ b.t = "fin" /\ a.v >= b.v

---------------------------------------------------------------------------
(* process_emission.py *)

\* EmissionProcessor.__init__ defaults
co2_warn_threshold == Fin(8000 * Milli)
co_warn_threshold == Fin(200 * Milli)
nox_warn_threshold == Fin(5 * Milli)

\* the weights of the emission score, in ten-thousandths
W_CO == 3000
W_CO2 == 5
W_NOx == 10000
W_PMx == 50000

\* EmissionProcessor._safe_float: TypeError and ValueError become 0.0,
\* any other exception of float() propagates
_safe_float(value) ==
    LET f == PyFloat(value)
    IN  IF f.exc \in {"TypeError", "ValueError"}
        THEN [exc |-> "none", val |-> Fin(0)]
        ELSE f

\* Status with the comparison made strict
Status_Strict(reading, threshold) ==
    IF FloatGE(reading, threshold) /\ reading # threshold THEN "HIGH" ELSE "OK"

Status(reading, threshold) == IF FloatGE(reading, threshold) THEN "HIGH" ELSE "OK"

\* EmissionScore with the PMx term left out
EmissionScore_NoPMx(co, co2, nox, pmx) ==
    IF co.t = "nan" \/ co2.t = "nan" \/ nox.t = "nan" \/ pmx.t = "nan"
    THEN NaN
    ELSE Fin(co.v * W_CO + co2.v * W_CO2 + nox.v * W_NOx)

\* co * 0.3 + co2 * 0.0005 + nox * 1.0 + pmx * 5.0, in units of 10^-7
EmissionScore(co, co2, nox, pmx) ==
    IF co.t = "nan" \/ co2.t = "nan" \/ nox.t = "nan" \/ pmx.t = "nan"
    THEN NaN
    ELSE Fin(co.v * W_CO + co2.v * W_CO2 + nox.v * W_NOx + pmx.v * W_PMx)

\* a decoded JSON object with the keys the evaluator reads
Row(id, ts, co, co2, nox, pmx, speed) ==
    [t |-> "obj", vehicle_id |-> id, timestep_time |-> ts, vehicle_CO |-> co,
     vehicle_CO2 |-> co2, vehicle_NOx |-> nox, vehicle_PMx |-> pmx,
     vehicle_speed |-> speed]

\* a decoded JSON value that is no object (number, string, array, null)
Scalar == [t |-> "scalar"]

NoRecord == [t |-> "none"]

\* EmissionProcessor.process: the record, or the exception that leaves it
process(event) ==
    IF event.t # "obj"
    THEN [exc |-> "AttributeError", rec |-> NoRecord]
    ELSE LET co == _safe_float(event.vehicle_CO)
             co2 == _safe_float(event.vehicle_CO2)
             nox == _safe_float(event.vehicle_NOx)
             pmx == _safe_float(event.vehicle_PMx)
             speed == _safe_float(event.vehicle_speed)
             raised == {f.exc : f \in {co, co2, nox, pmx, speed}} \ {"none"}
         IN  IF raised # {}
             THEN [exc |-> CHOOSE e \in raised : TRUE, rec |-> NoRecord]
             ELSE [exc |-> "none",
                   rec |-> [t |-> "rec",
                            vehicle_id |-> IF Truthy(event.vehicle_id)
                                           THEN event.vehicle_id
                                           ELSE JStr("unknown"),
                            timestep_time |-> event.timestep_time,
                            vehicle_CO |-> co.val,
                            vehicle_CO2 |-> co2.val,
                            vehicle_NOx |-> nox.val,
                            vehicle_PMx |-> pmx.val,
                            vehicle_speed |-> speed.val,
                            co2_status |-> Status(co2.val, co2_warn_threshold),
                            co_status |-> Status(co.val, co_warn_threshold),
                            nox_status |-> Status(nox.val, nox_warn_threshold),
                            emission_score |->
                                EmissionScore(co.val, co2.val, nox.val, pmx.val)]]

\* lambda_handler(event, context)
lambda_handler(event) == process(event)

---------------------------------------------------------------------------
(* main-mqtt.py: configuration *)

None == "None"
FirehoseClient == "FirehoseClient"
OUTPUT_TOPIC_PREFIX == "iot/Vehicle_"
FIREHOSE_STREAM_NAME == "lab4-vehicle-emissions-stream"

\* IOT_ENDPOINT.startswith("<YOUR_IOT_ENDPOINT"): the endpoint is filled in
EndpointIsPlaceholder == FALSE

\* whether the module's imports bind the name boto3: they do not
Boto3Imported == FALSE

\* configure_firehose_client: any exception of boto3.client(...), the
\* NameError of an unbound boto3 among them, is logged and None is returned
configure_firehose_client(boto3Env) ==
    IF ~Boto3Imported THEN None
    ELSE IF boto3Env = "raise" THEN None
    ELSE FirehoseClient

---------------------------------------------------------------------------
(* main-mqtt.py: messages *)

\* a decoded JSON object holding the key "data"
Envelope(p) == [t |-> "env", data |-> p]

\* message.payload: bytes that are no UTF-8, UTF-8 that is no JSON, or the
\* UTF-8 encoding of the JSON text of a value
BadUtf8 == [enc |-> "badutf8", body |-> Scalar]
BadJson == [enc |-> "badjson", body |-> Scalar]
Json(e) == [enc |-> "json", body |-> e]
NoMessage == [enc |-> "nomessage", body |-> Scalar]

\* message.payload.decode("utf-8") followed by json.loads
Decode(message) ==
    CASE message.enc = "badutf8" -> [exc |-> "UnicodeDecodeError", event |-> Scalar]
      [] message.enc = "badjson" -> [exc |-> "JSONDecodeError", event |-> Scalar]
      [] OTHER -> [exc |-> "none", event |-> message.body]

\* json.dumps(value): the JSON text of value, with no trailing newline
json_dumps(value) == [text |-> value, newlines |-> 0]

\* text + "\n"
PlusNewline(str) == [str EXCEPT !.newlines = @ + 1]

\* str(value) as an f-string formats it: a number and the string spelling
\* it give the same text
PyStr(x) ==
    CASE x.k = "str" -> [lit |-> x.s, num |-> 0]
      [] x.k \in {"num", "numstr"} -> [lit |-> "#", num |-> x.v]
      [] OTHER -> [lit |-> x.k, num |-> x.v]

NoTopic == [prefix |-> "", id |-> [lit |-> "", num |-> 0]]
NoText == [text |-> NoRecord, newlines |-> 0]

\* what one on_message_callback call did
Outcome(message, decoded, rec, pub, fh, topic, payload, data, error, raised) ==
    [msg |-> message, decoded |-> decoded, rec |-> rec, pub |-> pub, fh |-> fh,
     topic |-> topic, payload |-> payload, data |-> data, error |-> error,
     raised |-> raised]

\* Failed without the outer handler: the exception leaves the callback
Failed_Propagates(message, rec, pub, topic, payload, error) ==
    Outcome(message, TRUE, rec, pub, "none", topic, payload, NoText, error, TRUE)

\* the outer `except Exception` of handle_vehicle_message: logged, not raised
Failed(message, rec, pub, topic, payload, error) ==
    Outcome(message, TRUE, rec, pub, "none", topic, payload, NoText, error, FALSE)

---------------------------------------------------------------------------
(* main-mqtt.py: the handler and the callback *)

\* SinkWrites with the Firehose exception re-raised out of the handler
SinkWrites_FirehoseRaises(message, fhc, pubEnv, fhEnv, result, output_topic, result_json) ==
    IF pubEnv = "raise"
    THEN Failed(message, result, "raised", output_topic, result_json, "publishError")
    ELSE IF fhc = None
    THEN Outcome(message, TRUE, result, "delivered", "skipped", output_topic,
                 result_json, NoText, "none", FALSE)
    ELSE IF fhEnv = "raise"
    THEN Outcome(message, TRUE, result, "delivered", "failed", output_topic,
                 result_json, PlusNewline(result_json), "firehoseError", TRUE)
    ELSE Outcome(message, TRUE, result, "delivered", "appended", output_topic,
                 result_json, PlusNewline(result_json), "none", FALSE)

\* SinkWrites without the `if firehose_client` test: put_record is called on
\* None and the AttributeError is logged as a failed append
SinkWrites_NoClientCheck(message, fhc, pubEnv, fhEnv, result, output_topic, result_json) ==
    IF pubEnv = "raise"
    THEN Failed(message, result, "raised", output_topic, result_json, "publishError")
    ELSE IF fhc = None \/ fhEnv = "raise"
    THEN Outcome(message, TRUE, result, "delivered", "failed", output_topic,
                 result_json, PlusNewline(result_json), "firehoseError", FALSE)
    ELSE Outcome(message, TRUE, result, "delivered", "appended", output_topic,
                 result_json, PlusNewline(result_json), "none", FALSE)

\* SinkWrites with the two sections swapped: the Firehose append first, then
\* the live publish
SinkWrites_AppendFirst(message, fhc, pubEnv, fhEnv, result, output_topic, result_json) ==
    LET fh == IF fhc = None THEN "skipped"
              ELSE IF fhEnv = "raise" THEN "failed" ELSE "appended"
        data == IF fhc = None THEN NoText ELSE PlusNewline(result_json)
    IN  IF pubEnv = "raise"
        THEN Outcome(message, TRUE, result, "raised", fh, output_topic, result_json,
                     data, "publishError", FALSE)
        ELSE Outcome(message, TRUE, result, "delivered", fh, output_topic, result_json,
                     data, IF fh = "failed" THEN "firehoseError" ELSE "none", FALSE)

\* handle_vehicle_message, lines 125-148: the live publish, then the Firehose
\* append.  pubEnv and fhEnv are what the two sinks do when called: "ok" or
\* "raise".  An exception of publish reaches the outer handler; one of
\* put_record is caught and logged where it is raised.
SinkWrites(message, fhc, pubEnv, fhEnv, result, output_topic, result_json) ==
    IF pubEnv = "raise"
    THEN Failed(message, result, "raised", output_topic, result_json, "publishError")
    ELSE IF fhc = None
    THEN Outcome(message, TRUE, result, "delivered", "skipped", output_topic,
                 result_json, NoText, "none", FALSE)
    ELSE IF fhEnv = "raise"
    THEN Outcome(message, TRUE, result, "delivered", "failed", output_topic,
                 result_json, PlusNewline(result_json), "firehoseError", FALSE)
    ELSE Outcome(message, TRUE, result, "delivered", "appended", output_topic,
                 result_json, PlusNewline(result_json), "none", FALSE)

\* handle_vehicle_message with the topic built from the payload's own
\* vehicle_id, without the fallbacks
handle_vehicle_message_RawId(message, fhc, pubEnv, fhEnv, event) ==
    IF event.t = "scalar"
    THEN Failed(message, NoRecord, "none", NoTopic, NoText, "AttributeError")
    ELSE
    LET payload == IF event.t = "env" THEN event.data ELSE event
        r == lambda_handler(payload)
    IN  IF r.exc # "none"
        THEN Failed(message, NoRecord, "none", NoTopic, NoText, r.exc)
        ELSE
        LET result == r.rec
            output_topic == [prefix |-> OUTPUT_TOPIC_PREFIX,
                             id |-> PyStr(payload.vehicle_id)]
            result_json == json_dumps(result)
        IN  SinkWrites(message, fhc, pubEnv, fhEnv, result, output_topic, result_json)

\* handle_vehicle_message without the unwrapping of line 111: the evaluator is
\* given the event itself, and an envelope has none of the row's keys
handle_vehicle_message_NoUnwrap(message, fhc, pubEnv, fhEnv, event) ==
    IF event.t = "scalar"
    THEN Failed(message, NoRecord, "none", NoTopic, NoText, "AttributeError")
    ELSE
    LET payload == IF event.t = "env"
                   THEN Row(JAbsent, JAbsent, JAbsent, JAbsent, JAbsent, JAbsent, JAbsent)
                   ELSE event
        r == lambda_handler(payload)
    IN  IF r.exc # "none"
        THEN Failed(message, NoRecord, "none", NoTopic, NoText, r.exc)
        ELSE
        LET result == r.rec
            vehicle_id == IF Truthy(result.vehicle_id) THEN result.vehicle_id
                          ELSE IF Truthy(payload.vehicle_id) THEN payload.vehicle_id
                          ELSE JStr("unknown")
            output_topic == [prefix |-> OUTPUT_TOPIC_PREFIX, id |-> PyStr(vehicle_id)]
            result_json == json_dumps(result)
        IN  SinkWrites(message, fhc, pubEnv, fhEnv, result, output_topic, result_json)

\* handle_vehicle_message(mqtt_client, firehose_client, event)
handle_vehicle_message(message, fhc, pubEnv, fhEnv, event) ==
    IF event.t = "scalar"
    THEN \* event.get on a value that is no dict
         Failed(message, NoRecord, "none", NoTopic, NoText, "AttributeError")
    ELSE
    LET payload == IF event.t = "env" THEN event.data ELSE event
        r == lambda_handler(payload)
    IN  IF r.exc # "none"
        THEN Failed(message, NoRecord, "none", NoTopic, NoText, r.exc)
        ELSE
        LET result == r.rec
            vehicle_id == IF Truthy(result.vehicle_id) THEN result.vehicle_id
                          ELSE IF Truthy(payload.vehicle_id) THEN payload.vehicle_id
                          ELSE JStr("unknown")
            output_topic == [prefix |-> OUTPUT_TOPIC_PREFIX, id |-> PyStr(vehicle_id)]
            result_json == json_dumps(result)
        IN  SinkWrites(message, fhc, pubEnv, fhEnv, result, output_topic, result_json)

\* on_message_callback without its try/except: a decode error leaves it
on_message_callback_Unguarded(message, fhc, pubEnv, fhEnv) ==
    LET d == Decode(message)
    IN  IF d.exc # "none"
        THEN Outcome(message, FALSE, NoRecord, "none", "none", NoTopic, NoText,
                     NoText, d.exc, TRUE)
        ELSE handle_vehicle_message(message, fhc, pubEnv, fhEnv, d.event)

\* on_message_callback(client, userdata, message)
on_message_callback(message, fhc, pubEnv, fhEnv) ==
    LET d == Decode(message)
    IN  IF d.exc # "none"
        THEN Outcome(message, FALSE, NoRecord, "none", "none", NoTopic, NoText,
                     NoText, d.exc, FALSE)
        ELSE handle_vehicle_message(message, fhc, pubEnv, fhEnv, d.event)

---------------------------------------------------------------------------
(* Inputs *)

SinkEnv == {"ok", "raise"}

\* {vehicle_id: "car-3", vehicle_CO2: "9000", vehicle_CO: "50", vehicle_NOx: "2"}
Car3 ==
    Row(JStr("car-3"), JAbsent, JNumStr(50 * Milli), JNumStr(9000 * Milli),
        JNumStr(2 * Milli), JAbsent, JAbsent)

\* a dataset row with every reading at its threshold
RowHigh ==
    Row(JStr("veh0"), JNum(1 * Milli), JNum(200 * Milli), JNum(8000 * Milli),
        JNum(5 * Milli), JNum(100), JNum(12 * Milli))

\* a row without identifier and with unusable readings
RowNoId ==
    Row(JAbsent, JNum(2 * Milli), JStr("n/a"), JNull, JList(0), JAbsent, JStr("nan"))

\* a row whose CO reading is an integer above the float range
RowBig == [RowHigh EXCEPT !.vehicle_CO = JBig]

Events ==
    {Car3, RowHigh, RowNoId, RowBig, Envelope(RowHigh), Envelope(Scalar), Scalar}

Messages == {BadUtf8, BadJson} \cup {Json(e) : e \in Events}

NotRun == [exc |-> "notrun", rec |-> NoRecord]
NoEvent == Scalar

---------------------------------------------------------------------------
(* The fleet publisher's parameters *)

\* device_st, device_end of the MQTT script; CAR_ID_START, CAR_ID_END of the
\* HTTPS script (both ranges are 1 .. 10 there)
device_st == 1
device_end == device_st + NumDevices
CAR_ID_START == 1
CAR_ID_END == CAR_ID_START + NumDevices

Devices == device_st .. device_end - 1

\* os.path.exists(csv_path) is false
Missing == 0 - 1

\* no publisher script runs
FleetOff ==
    /\ prog = "none"
    /\ fpc = "off"
    /\ fexc = "none"
    /\ dataset = <<>>
    /\ certs = <<>>
    /\ keys = <<>>
    /\ next_id = 0
    /\ clients = <<>>
    /\ connected = {}
    /\ disc = <<>>
    /\ cur = 0
    /\ row = 0
    /\ trace = <<>>
    /\ cmds = 0
    /\ lastcmd = <<>>

---------------------------------------------------------------------------
(* main-mqtt.py: main() and the transport *)

Init ==
    /\ pc = "start"
    /\ firehose_client = None
    /\ pending = <<>>
    /\ inflight = NoMessage
    /\ handled = <<>>
    /\ published = <<>>
    /\ stream = <<>>
    /\ escaped = FALSE
    /\ interrupted = FALSE
    /\ ev_in = NoEvent
    /\ ev_out = NotRun
    /\ arrived = <<>>
    /\ FleetOff

\* main(): the endpoint check, then configure_mqtt_client() is entered
MainStart ==
    /\ pc = "start"
    /\ pc' = IF EndpointIsPlaceholder THEN "aborted" ELSE "connecting"
    /\ UNCHANGED <<firehose_client, pending, inflight, handled, published, stream,
                   escaped, interrupted, ev_in, ev_out, arrived, fleetVars>>

\* main(): client.connect(), configure_firehose_client(), subscribe().  An
\* exception of connect() or subscribe() leaves main() and ends the process.
Connect ==
    /\ pc = "connecting"
    /\ \E mqttEnv \in SinkEnv, boto3Env \in SinkEnv :
          IF mqttEnv = "raise"
          THEN pc' = "aborted" /\ UNCHANGED firehose_client
          ELSE /\ pc' = "waiting"
               /\ firehose_client' = configure_firehose_client(boto3Env)
    /\ UNCHANGED <<pending, inflight, handled, published, stream, escaped,
                   interrupted, ev_in, ev_out, arrived, fleetVars>>

\* the transport receives a message on INPUT_TOPIC
Arrive ==
    /\ pc = "waiting"
    /\ Len(pending) + Len(handled) + (IF inflight = NoMessage THEN 0 ELSE 1) < MaxMsgs
    /\ \E m \in Messages :
          /\ pending' = Append(pending, m)
          /\ arrived' = Append(arrived, m)
    /\ UNCHANGED <<pc, firehose_client, inflight, handled, published, stream,
                   escaped, interrupted, ev_in, ev_out, fleetVars>>

\* a transport that hands the newest waiting message to the callback
Deliver_Lifo ==
    /\ pc = "waiting"
    /\ ~escaped
    /\ inflight = NoMessage
    /\ pending # <<>>
    /\ inflight' = pending[Len(pending)]
    /\ pending' = SubSeq(pending, 1, Len(pending) - 1)
    /\ UNCHANGED <<pc, firehose_client, handled, published, stream, escaped,
                   interrupted, ev_in, ev_out, arrived, fleetVars>>

\* the transport's dispatch thread calls the subscribed callback, one call at
\* a time: the lambda of main() calls on_message_callback synchronously
Deliver ==
    /\ pc = "waiting"
    /\ ~escaped
    /\ inflight = NoMessage
    /\ pending # <<>>
    /\ inflight' = Head(pending)
    /\ pending' = Tail(pending)
    /\ UNCHANGED <<pc, firehose_client, handled, published, stream, escaped,
                   interrupted, ev_in, ev_out, arrived, fleetVars>>

\* one call of on_message_callback runs to its end
OnMessageCallback ==
    /\ inflight # NoMessage
    /\ \E pubEnv \in SinkEnv, fhEnv \in SinkEnv :
          LET o == on_message_callback(inflight, firehose_client, pubEnv, fhEnv)
          IN  /\ handled' = Append(handled, o)
              /\ published' = IF o.pub = "delivered"
                              THEN Append(published, [topic |-> o.topic,
                                                      payload |-> o.payload])
                              ELSE published
              /\ stream' = IF o.fh = "appended"
                           THEN Append(stream, [DeliveryStreamName |-> FIREHOSE_STREAM_NAME,
                                                Data |-> o.data])
                           ELSE stream
              /\ escaped' = (escaped \/ o.raised)
    /\ inflight' = NoMessage
    /\ UNCHANGED <<pc, firehose_client, pending, interrupted, ev_in, ev_out, arrived, fleetVars>>

\* main(): KeyboardInterrupt in the wait loop, then mqtt_client.disconnect()
Shutdown ==
    /\ pc = "waiting"
    /\ pc' = "done"
    /\ interrupted' = TRUE
    /\ UNCHANGED <<firehose_client, pending, inflight, handled, published, stream,
                   escaped, ev_in, ev_out, arrived, fleetVars>>

\* the subscriber's state as section 4.4 names it, read off main()'s position
\* and the callback
SubscriberState ==
    CASE escaped -> "Crashed"
      [] pc = "start" -> "Disconnected"
      [] pc = "connecting" -> "Connecting"
      [] pc = "aborted" -> "Aborted"
      [] pc = "done" -> "Disconnected"
      [] pc = "waiting" /\ inflight # NoMessage -> "Processing"
      [] OTHER -> "Subscribed"

Next == MainStart \/ Connect \/ Arrive \/ Deliver \/ OnMessageCallback \/ Shutdown

\* a run of the component started by main()
Spec == Init /\ [][Next]_vars

---------------------------------------------------------------------------
(* on_message_callback called with a userdata of the caller's choice *)

InitCallback ==
    /\ pc = "waiting"
    /\ firehose_client \in {None, FirehoseClient}
    /\ pending = <<>>
    /\ inflight = NoMessage
    /\ handled = <<>>
    /\ published = <<>>
    /\ stream = <<>>
    /\ escaped = FALSE
    /\ interrupted = FALSE
    /\ ev_in = NoEvent
    /\ ev_out = NotRun
    /\ arrived = <<>>
    /\ FleetOff

NextCallback == Arrive \/ Deliver \/ OnMessageCallback

SpecCallback == InitCallback /\ [][NextCallback]_vars

---------------------------------------------------------------------------
(* lambda_handler called directly on one decoded event *)

\* the values tried for a reading whose threshold is thr
ReadingValues(thr) ==
    {JAbsent, JNull, JNum(0), JNum(thr - 1), JNum(thr), JNum(thr + 1),
     JNumStr(thr - 1), JNumStr(thr), JStr("abc"), JStr("nan"), JBig, JList(0),
     JBool(TRUE)}

EvalEvents ==
    {Row(id, JAbsent, co, co2, nox, pmx, speed) :
        id \in {JAbsent, JStr("car-3")},
        co \in ReadingValues(200 * Milli),
        co2 \in ReadingValues(8000 * Milli),
        nox \in ReadingValues(5 * Milli),
        pmx \in {JAbsent, JNum(100), JStr("abc")},
        speed \in {JAbsent, JNum(12 * Milli), JNull}}

InitEval ==
    /\ pc = "eval"
    /\ firehose_client = None
    /\ pending = <<>>
    /\ inflight = NoMessage
    /\ handled = <<>>
    /\ published = <<>>
    /\ stream = <<>>
    /\ escaped = FALSE
    /\ interrupted = FALSE
    /\ ev_in \in EvalEvents
    /\ ev_out = NotRun
    /\ arrived = <<>>
    /\ FleetOff

LambdaHandlerCall ==
    /\ pc = "eval"
    /\ ev_out = NotRun
    /\ ev_out' = lambda_handler(ev_in)
    /\ UNCHANGED <<pc, firehose_client, pending, inflight, handled, published,
                   stream, escaped, interrupted, ev_in, arrived, fleetVars>>

NextEval == LambdaHandlerCall

SpecEval == InitEval /\ [][NextEval]_vars

---------------------------------------------------------------------------
(* The fleet publisher: vehicle-data/lab4_emulator_client.py publishes over *)
(* MQTT with one client per device, lab4_emulator_client.py over HTTPS with *)
(* one shared client                                                        *)

Whitespace == {" ", "\t", "\n"}

\* str.strip() on a line given as its characters
RECURSIVE LStrip(_)
LStrip(line) == IF line # <<>> /\ Head(line) \in Whitespace THEN LStrip(Tail(line)) ELSE line

RECURSIVE RStrip(_)
RStrip(line) == IF line # <<>> /\ line[Len(line)] \in Whitespace THEN RStrip(SubSeq(line, 1, Len(line) - 1)) ELSE line

Strip(line) == RStrip(LStrip(line))

\* str.lower(), on the letters the input lines use
LowerChar(c) ==
    CASE c = "S" -> "s"
      [] c = "D" -> "d"
      [] c = "X" -> "x"
      [] OTHER -> c

Lower(line) == [i \in 1 .. Len(line) |-> LowerChar(line[i])]

\* x = input().strip() in the MQTT script,
\* cmd = input(...).strip().lower() in the HTTPS script
ReadCommand(p, line) == IF p = "https" THEN Lower(Strip(line)) ELSE Strip(line)

\* a command loop whose last branch is taken for 'd' and anything else
Dispatch_ElseDisconnect(x) == IF x = <<"s">> THEN "send" ELSE "disconnect"

\* the if / elif / else of the command loop
Dispatch(x) ==
    IF x = <<"s">> THEN "send"
    ELSE IF x = <<"d">> THEN "disconnect"
    ELSE "invalid"

\* a start-up test that passes with either file
Qualifies_Either(cert, key) == cert = "yes" \/ key = "yes"

\* os.path.exists(cert_path) and os.path.exists(key_path)
Qualifies(cert, key) == cert = "yes" /\ key = "yes"

\* the lines typed at the prompt
InputLines == {<<"s">>, <<"d">>, <<" ", "s", " ">>, <<"S">>, <<"x">>}

\* the process's exit status: 0 at the end of the script, 1 after
\* SystemExit(1) or an uncaught exception, Running before that
Running == 0 - 1
ExitStatus ==
    CASE fpc = "exit0" -> 0
      [] fpc \in {"exit1", "raised"} -> 1
      [] OTHER -> Running

\* the device whose rows are being published
CurDevice == clients[cur]

\* a publisher script starts.  The MQTT script begins with its client
\* initialisation loop; the HTTPS script has no per-device client and loops
\* over range(CAR_ID_START, CAR_ID_END) in every round.
InitFleet ==
    /\ pc = "off"
    /\ firehose_client = None
    /\ pending = <<>>
    /\ inflight = NoMessage
    /\ handled = <<>>
    /\ published = <<>>
    /\ stream = <<>>
    /\ escaped = FALSE
    /\ interrupted = FALSE
    /\ ev_in = NoEvent
    /\ ev_out = NotRun
    /\ arrived = <<>>
    /\ prog \in {"mqtt", "https"}
    /\ fexc = "none"
    /\ dataset \in [Devices -> {Missing} \cup (0 .. MaxRows)]
    /\ certs = [d \in Devices |-> "unchecked"]
    /\ keys = [d \in Devices |-> "unchecked"]
    /\ connected = {}
    /\ disc = <<>>
    /\ cur = 0
    /\ row = 0
    /\ trace = <<>>
    /\ cmds = 0
    /\ lastcmd = <<>>
    /\ IF prog = "mqtt"
       THEN /\ fpc = "init"
            /\ next_id = device_st
            /\ clients = <<>>
       ELSE /\ fpc = "prompt"
            /\ next_id = CAR_ID_END
            /\ clients = [i \in 1 .. (CAR_ID_END - CAR_ID_START) |-> CAR_ID_START + i - 1]

\* one iteration of the client initialisation loop of the MQTT script
InitClient ==
    /\ fpc = "init"
    /\ next_id < device_end
    /\ \E cert \in {"yes", "no"}, keyfile \in {"yes", "no"}, conn \in SinkEnv :
          LET key == IF cert = "yes" THEN keyfile ELSE "untested"
          IN  /\ certs' = [certs EXCEPT ![next_id] = cert]
              /\ keys' = [keys EXCEPT ![next_id] = key]
              /\ IF ~Qualifies(cert, key)
                 THEN /\ next_id' = next_id + 1
                      /\ UNCHANGED <<fpc, fexc, clients, connected>>
                 ELSE IF conn = "ok"
                 THEN /\ clients' = Append(clients, next_id)
                      /\ connected' = connected \cup {next_id}
                      /\ next_id' = next_id + 1
                      /\ UNCHANGED <<fpc, fexc>>
                 ELSE /\ fpc' = "raised"
                      /\ fexc' = "ConnectError"
                      /\ UNCHANGED <<next_id, clients, connected>>
    /\ UNCHANGED <<pipeVars, prog, dataset, disc, cur, row, trace, cmds, lastcmd>>

\* the loop is over: if not clients: raise SystemExit(1)
InitDone ==
    /\ fpc = "init"
    /\ next_id = device_end
    /\ fpc' = IF clients = <<>> THEN "exit1" ELSE "prompt"
    /\ UNCHANGED <<pipeVars, prog, fexc, dataset, certs, keys, next_id, clients,
                   connected, disc, cur, row, trace, cmds, lastcmd>>

\* one line is read at the prompt and dispatched; 'd' disconnects the clients
\* one after the other and leaves the loop, an unknown command prints the
\* notice, sleeps and prompts again
Command ==
    /\ fpc = "prompt"
    /\ cmds < MaxCmds
    /\ \E line \in InputLines :
          LET action == Dispatch(ReadCommand(prog, line))
          IN  /\ lastcmd' = line
              /\ cmds' = cmds + 1
              /\ CASE action = "send" ->
                        /\ fpc' = "round"
                        /\ cur' = 1
                        /\ row' = 0
                        /\ trace' = <<>>
                        /\ UNCHANGED <<connected, disc>>
                   [] action = "disconnect" ->
                        /\ fpc' = "exit0"
                        /\ disc' = IF prog = "mqtt" THEN disc \o clients ELSE disc
                        /\ connected' = IF prog = "mqtt"
                                        THEN connected \ {clients[i] : i \in 1 .. Len(clients)}
                                        ELSE connected
                        /\ UNCHANGED <<cur, row, trace>>
                   [] OTHER ->
                        /\ UNCHANGED <<fpc, cur, row, trace, connected, disc>>
    /\ UNCHANGED <<pipeVars, prog, fexc, dataset, certs, keys, next_id, clients>>

\* publish() / publish_car_data() is called for the next device of the round
\* and tests os.path.exists(csv_path): the MQTT script raises
\* FileNotFoundError, which nothing catches; the HTTPS script warns and returns
PublishCall ==
    /\ fpc = "round"
    /\ cur <= Len(clients)
    /\ row = 0
    /\ IF dataset[CurDevice] = Missing
       THEN IF prog = "mqtt"
            THEN /\ fpc' = "raised"
                 /\ fexc' = "FileNotFoundError"
                 /\ UNCHANGED <<cur, row>>
            ELSE /\ cur' = cur + 1
                 /\ UNCHANGED <<fpc, fexc, row>>
       ELSE /\ row' = 1
            /\ UNCHANGED <<fpc, fexc, cur>>
    /\ UNCHANGED <<pipeVars, prog, dataset, certs, keys, next_id, clients, connected,
                   disc, trace, cmds, lastcmd>>

\* the body of for index, row in df.iterrows() up to the publish call, for
\* device d
PublishRowOf(d) ==
    /\ fpc = "round"
    /\ cur <= Len(clients)
    /\ CurDevice = d
    /\ row >= 1
    /\ row <= dataset[d]
    /\ trace' = Append(trace, [op |-> "pub", dev |-> d, row |-> row])
    /\ fpc' = "sleep"
    /\ UNCHANGED <<pipeVars, prog, fexc, dataset, certs, keys, next_id, clients,
                   connected, disc, cur, row, cmds, lastcmd>>

PublishRow == \E d \in Devices : PublishRowOf(d)

\* time.sleep(0.2) after the publish call
PacingDelay ==
    /\ fpc = "sleep"
    /\ trace' = Append(trace, [op |-> "sleep", dev |-> CurDevice, row |-> row])
    /\ row' = row + 1
    /\ fpc' = "round"
    /\ UNCHANGED <<pipeVars, prog, fexc, dataset, certs, keys, next_id, clients,
                   connected, disc, cur, cmds, lastcmd>>

\* the rows are exhausted: publish() returns and the round goes on with the
\* next device
PublishReturn ==
    /\ fpc = "round"
    /\ cur <= Len(clients)
    /\ row >= 1
    /\ row > dataset[CurDevice]
    /\ cur' = cur + 1
    /\ row' = 0
    /\ UNCHANGED <<pipeVars, prog, fpc, fexc, dataset, certs, keys, next_id, clients,
                   connected, disc, trace, cmds, lastcmd>>

\* the for loop over the devices is over: sleep, then the next prompt
RoundEnd ==
    /\ fpc = "round"
    /\ cur > Len(clients)
    /\ fpc' = "prompt"
    /\ cur' = 0
    /\ UNCHANGED <<pipeVars, prog, fexc, dataset, certs, keys, next_id, clients,
                   connected, disc, row, trace, cmds, lastcmd>>

NextFleet ==
    \/ InitClient
    \/ InitDone
    \/ Command
    \/ PublishCall
    \/ PublishRow
    \/ PacingDelay
    \/ PublishReturn
    \/ RoundEnd

\* a run of one of the two publisher scripts
SpecFleet == InitFleet /\ [][NextFleet]_vars

---------------------------------------------------------------------------
(* The two publishers' messages at the subscriber *)

\* the rows a device's CSV can hold
DatasetRows == {Car3, RowHigh, RowNoId, RowBig}

\* f"lab4-car-{car_id}"
DeviceId(car_id) == [lit |-> "lab4-car-", num |-> car_id]

\* MQTT script: payload = json.dumps(row.to_dict())
MqttPayload(r) == Json(r)

\* HTTPS script: payload_str = json.dumps({"device_id": device_id, "data": row.to_dict()})
HttpsPayload(car_id, r) == Json([t |-> "env", device_id |-> DeviceId(car_id), data |-> r])

\* the subscriber is connected and subscribed; ev_in is the dataset row the
\* publishers read
InitPair ==
    /\ pc = "waiting"
    /\ firehose_client \in {None, FirehoseClient}
    /\ pending = <<>>
    /\ inflight = NoMessage
    /\ handled = <<>>
    /\ published = <<>>
    /\ stream = <<>>
    /\ escaped = FALSE
    /\ interrupted = FALSE
    /\ ev_in \in DatasetRows
    /\ ev_out = NotRun
    /\ arrived = <<>>
    /\ FleetOff

\* a message one of the publishers made of the row arrives on INPUT_TOPIC
ArrivePair ==
    /\ pc = "waiting"
    /\ Len(arrived) < MaxMsgs
    /\ \E d \in Devices :
       \E m \in {MqttPayload(ev_in), HttpsPayload(d, ev_in)} :
          /\ pending' = Append(pending, m)
          /\ arrived' = Append(arrived, m)
    /\ UNCHANGED <<pc, firehose_client, inflight, handled, published, stream,
                   escaped, interrupted, ev_in, ev_out, fleetVars>>

NextPair == ArrivePair \/ Deliver \/ OnMessageCallback

\* the subscriber fed with both publishers' messages of one row
SpecPair == InitPair /\ [][NextPair]_vars

---------------------------------------------------------------------------
(* Properties *)

Entries == 1 .. Len(handled)
PublishAttempted(o) == o.pub \in {"delivered", "raised"}
AppendAttempted(o) == o.fh \in {"appended", "failed"}

\* C1: every message that decodes to a JSON object yields exactly one processed
\* record, one publish attempt on the live sink and one append attempt on the
\* durable sink.
C1_OneRecordOneAttemptPerSink ==
    \A i \in Entries :
        (handled[i].decoded /\ handled[i].msg.body.t = "obj") =>
            /\ handled[i].rec # NoRecord
            /\ PublishAttempted(handled[i])
            /\ AppendAttempted(handled[i])

\* C2: a failing durable append leaves the live publish of the same record
\* performed and delivered, and no exception leaves the handler because of it.
C2_AppendFailureKeepsPublish ==
    /\ ~escaped
    /\ \A i \in Entries :
          handled[i].fh = "failed" =>
              /\ handled[i].pub = "delivered"
              /\ ~handled[i].raised
              /\ \E j \in 1 .. Len(published) :
                    published[j] = [topic |-> handled[i].topic,
                                    payload |-> json_dumps(handled[i].rec)]
    /\ Len(published) = Cardinality({i \in Entries : handled[i].pub = "delivered"})

C2_Witness ==
    /\ firehose_client = FirehoseClient
    /\ Len(handled) >= 2
    /\ \A i \in Entries : handled[i].fh = "failed" /\ handled[i].pub = "delivered"
    /\ Len(published) = Len(handled)
    /\ stream = <<>>

\* C3: when the live publish of a record fails, the durable append of that
\* record is still attempted.
C3_PublishFailureKeepsAppend ==
    \A i \in Entries :
        (handled[i].pub = "raised" /\ firehose_client # None) =>
            AppendAttempted(handled[i])

\* C4: in a run started by main(), each processed record that was published
\* is appended to the durable stream once, as its serialization plus a newline.
C4_EachRecordAppended ==
    \A i \in Entries :
        (handled[i].rec # NoRecord /\ handled[i].pub = "delivered") =>
            /\ AppendAttempted(handled[i])
            /\ handled[i].data = PlusNewline(json_dumps(handled[i].rec))
            /\ handled[i].data.newlines = 1

\* C5: a malformed payload produces no record and no sink attempt, leaves both
\* sinks and the subscription as they were, lets no exception out of the
\* callback, and the well-formed message after it is evaluated and published.
C5_MalformedDropped ==
    [][/\ (inflight.enc \in {"badutf8", "badjson"} /\ handled' # handled) =>
             /\ handled'[Len(handled')].rec = NoRecord
             /\ ~handled'[Len(handled')].decoded
             /\ ~PublishAttempted(handled'[Len(handled')])
             /\ ~AppendAttempted(handled'[Len(handled')])
             /\ ~handled'[Len(handled')].raised
             /\ published' = published
             /\ stream' = stream
             /\ pc' = pc
             /\ ~escaped'
       /\ (/\ handled # <<>>
           /\ ~handled[Len(handled)].decoded
           /\ inflight = Json(Car3)
           /\ handled' # handled) =>
             /\ handled'[Len(handled')].rec = lambda_handler(Car3).rec
             /\ PublishAttempted(handled'[Len(handled')])
             /\ Len(published') + (IF handled'[Len(handled')].pub = "raised"
                                   THEN 1 ELSE 0) = Len(published) + 1
      ]_vars

C5_Witness ==
    /\ Len(handled) >= 2
    /\ handled[1].msg = BadJson
    /\ handled[1].error = "JSONDecodeError"
    /\ handled[2].msg = Json(Car3)
    /\ handled[2].pub = "delivered"
    /\ Len(published) = 1
    /\ pc = "waiting"

\* C6: the subscriber moves Disconnected -> Connecting -> Subscribed ->
\* Processing -> Subscribed; a completed callback leaves it Subscribed whatever
\* failed in it, it never crashes, a start-up failure alone aborts it, and it
\* becomes Disconnected again only by the interrupt of main().
C6_Transitions ==
    {<<"Disconnected", "Connecting">>, <<"Disconnected", "Aborted">>,
     <<"Connecting", "Subscribed">>, <<"Connecting", "Aborted">>,
     <<"Subscribed", "Processing">>, <<"Processing", "Subscribed">>,
     <<"Subscribed", "Disconnected">>, <<"Processing", "Disconnected">>}

C6_SubscriberStateMachine ==
    [][/\ SubscriberState' # SubscriberState =>
             <<SubscriberState, SubscriberState'>> \in C6_Transitions
       /\ (handled' # handled /\ pc = "waiting") => SubscriberState' = "Subscribed"
       /\ (SubscriberState' = "Disconnected" /\ SubscriberState # "Disconnected") =>
             (interrupted' /\ ~interrupted)
       /\ (SubscriberState \in {"Subscribed", "Processing"}
             /\ SubscriberState' \notin {"Subscribed", "Processing"}) =>
             (interrupted' /\ ~interrupted)
      ]_vars

C6_Witness ==
    /\ Len(handled) = 3
    /\ ~handled[1].decoded
    /\ handled[2].error \in {"OverflowError", "AttributeError"}
    /\ handled[3].pub = "raised"
    /\ SubscriberState = "Subscribed"

\* C7: with no durable-sink client after start-up, every record is published
\* live, its append is skipped rather than attempted, and nothing is raised.
C7_NoClientSkipsAppend ==
    (firehose_client = None /\ pc \in {"waiting", "done"}) =>
        /\ ~escaped
        /\ stream = <<>>
        /\ \A i \in Entries :
              /\ ~handled[i].raised
              /\ handled[i].rec # NoRecord => PublishAttempted(handled[i])
              /\ handled[i].pub = "delivered" => handled[i].fh = "skipped"
              /\ ~AppendAttempted(handled[i])

C7_Witness ==
    /\ pc = "waiting"
    /\ firehose_client = None
    /\ Len(handled) >= 1
    /\ handled[1].rec # NoRecord
    /\ handled[1].pub = "delivered"
    /\ handled[1].fh = "skipped"
    /\ Len(published) = 1

\* C8: a message that has arrived never waits for the callback of an earlier
\* message to finish: its own callback can start at once.
C8_CallbackNeverBlocksNext ==
    (pc = "waiting" /\ pending # <<>>) => ENABLED Deliver

\* the coerced reading of the JSON value x is at least n thousandths
AtLeast(x, n) ==
    \/ x.k \in {"num", "numstr"} /\ x.v >= n
    \/ x.k = "bool" /\ x.v * Milli >= n

Flag(x, n) == IF AtLeast(x, n) THEN "HIGH" ELSE "OK"

\* C9: each status flag is HIGH iff the coerced reading of its own pollutant
\* is at or above that pollutant's threshold (CO2 8000, CO 200, NOx 5.0), and
\* OK otherwise, whatever the other readings are.
C9_StatusIffAtOrAboveThreshold ==
    ev_out.exc = "none" =>
        /\ ev_out.rec.co2_status = Flag(ev_in.vehicle_CO2, 8000 * Milli)
        /\ ev_out.rec.co_status = Flag(ev_in.vehicle_CO, 200 * Milli)
        /\ ev_out.rec.nox_status = Flag(ev_in.vehicle_NOx, 5 * Milli)

C9_Witness ==
    /\ ev_out.exc = "none"
    /\ ev_in.vehicle_CO2 = JNum(8000 * Milli)
    /\ ev_out.rec.co2_status = "HIGH"
    /\ ev_in.vehicle_CO = JNum(200 * Milli - 1)
    /\ ev_out.rec.co_status = "OK"
    /\ ev_in.vehicle_NOx = JNumStr(5 * Milli)
    /\ ev_out.rec.nox_status = "HIGH"

\* the JSON value x is absent or float() does not accept it
Unusable(x) ==
    \/ x.k \in {"absent", "null", "list", "big"}
    \/ x.k = "str" /\ x.s # "nan"

\* C10: once lambda_handler has run on a decoded object, it has raised nothing
\* and every numeric field that was absent or unusable is reported as 0.0.
C10_UnusableFieldsBecomeZero ==
    ev_out # NotRun =>
        /\ ev_out.exc = "none"
        /\ Unusable(ev_in.vehicle_CO) => ev_out.rec.vehicle_CO = Fin(0)
        /\ Unusable(ev_in.vehicle_CO2) => ev_out.rec.vehicle_CO2 = Fin(0)
        /\ Unusable(ev_in.vehicle_NOx) => ev_out.rec.vehicle_NOx = Fin(0)
        /\ Unusable(ev_in.vehicle_PMx) => ev_out.rec.vehicle_PMx = Fin(0)
        /\ Unusable(ev_in.vehicle_speed) => ev_out.rec.vehicle_speed = Fin(0)

\* the reading a JSON value stands for: its number, or 0 when it is missing
Reading(x) == IF x.k \in {"num", "numstr"} THEN x.v ELSE 0

ValidOrMissing(x) == x.k \in {"num", "numstr", "absent"}

\* C11: for an event whose four pollutant readings are numbers (or missing),
\* lambda_handler raises nothing and emission_score is
\* 0.3*CO + 0.0005*CO2 + 1.0*NOx + 5.0*PMx (readings in thousandths, weights in
\* ten-thousandths).
C11_ScoreIsWeightedSum ==
    (/\ ev_out # NotRun
     /\ ValidOrMissing(ev_in.vehicle_CO)
     /\ ValidOrMissing(ev_in.vehicle_CO2)
     /\ ValidOrMissing(ev_in.vehicle_NOx)
     /\ ValidOrMissing(ev_in.vehicle_PMx)) =>
        /\ ev_out.exc = "none"
        /\ ev_out.rec.emission_score =
              Fin(3000 * Reading(ev_in.vehicle_CO) + 5 * Reading(ev_in.vehicle_CO2)
                  + 10000 * Reading(ev_in.vehicle_NOx)
                  + 50000 * Reading(ev_in.vehicle_PMx))

C11_Witness ==
    /\ ev_in.vehicle_CO = JNum(200 * Milli)
    /\ ev_in.vehicle_CO2 = JNumStr(8000 * Milli)
    /\ ev_in.vehicle_NOx = JNum(5 * Milli + 1)
    /\ ev_in.vehicle_PMx = JNum(100)
    /\ ev_out.exc = "none"
    /\ ev_out.rec.emission_score = Fin(695010000)

\* C12: the event {vehicle_id "car-3", CO2 "9000", CO "50", NOx "2"} yields one
\* record with vehicle_id "car-3", co2_status HIGH, co_status OK, nox_status OK
\* and emission_score 21.5, and the serialization of that record is what the
\* live publish and the durable append are given.
C12_Car3EndToEnd ==
    \A i \in Entries :
        handled[i].msg = Json(Car3) =>
            /\ handled[i].rec # NoRecord
            /\ handled[i].rec.vehicle_id = JStr("car-3")
            /\ handled[i].rec.co2_status = "HIGH"
            /\ handled[i].rec.co_status = "OK"
            /\ handled[i].rec.nox_status = "OK"
            /\ handled[i].rec.emission_score = Fin(215000000)
            /\ PublishAttempted(handled[i])
            /\ handled[i].payload = [text |-> handled[i].rec, newlines |-> 0]
            /\ handled[i].pub = "delivered" =>
                  \E j \in 1 .. Len(published) :
                      published[j].payload = [text |-> handled[i].rec, newlines |-> 0]
            /\ handled[i].fh = "appended" =>
                  \E j \in 1 .. Len(stream) :
                      stream[j].Data = [text |-> handled[i].rec, newlines |-> 1]

C12_Witness ==
    /\ Len(handled) >= 1
    /\ handled[1].msg = Json(Car3)
    /\ handled[1].rec.emission_score = Fin(215000000)
    /\ handled[1].pub = "delivered"
    /\ handled[1].fh = "appended"
    /\ Len(published) = 1
    /\ Len(stream) = 1

\* the object a message's evaluation reads: the value under "data", or the body
Body(message) == IF message.body.t = "env" THEN message.body.data ELSE message.body

\* C13: every live publish goes to the topic "iot/Vehicle_" followed by the
\* text of the record's vehicle_id, with the record's serialization as payload;
\* records with the same vehicle_id get the same topic, and an event without
\* vehicle_id is published under "unknown".
C13_TopicIsPrefixPlusIdentifier ==
    /\ \A i \in Entries :
          PublishAttempted(handled[i]) =>
              /\ handled[i].topic.prefix = "iot/Vehicle_"
              /\ handled[i].rec.vehicle_id.k = "str"
              /\ handled[i].topic.id = [lit |-> handled[i].rec.vehicle_id.s, num |-> 0]
              /\ handled[i].payload = [text |-> handled[i].rec, newlines |-> 0]
              /\ Body(handled[i].msg).vehicle_id = JAbsent =>
                    handled[i].topic.id = [lit |-> "unknown", num |-> 0]
    /\ \A i, j \in Entries :
          (/\ PublishAttempted(handled[i])
           /\ PublishAttempted(handled[j])
           /\ handled[i].rec.vehicle_id = handled[j].rec.vehicle_id) =>
              handled[i].topic = handled[j].topic
    /\ \A j \in 1 .. Len(published) :
          \E i \in Entries :
              /\ handled[i].pub = "delivered"
              /\ published[j] = [topic |-> handled[i].topic,
                                 payload |-> handled[i].payload]

C13_Witness ==
    /\ Len(handled) >= 2
    /\ handled[1].msg = Json(RowNoId)
    /\ handled[1].pub = "delivered"
    /\ handled[1].topic = [prefix |-> "iot/Vehicle_", id |-> [lit |-> "unknown", num |-> 0]]
    /\ handled[2].msg = Json(Envelope(RowHigh))
    /\ handled[2].pub = "delivered"
    /\ published[2].topic = [prefix |-> "iot/Vehicle_", id |-> [lit |-> "veh0", num |-> 0]]


\* the messages of a sequence of callback outcomes
MsgsOf(os) == [i \in 1 .. Len(os) |-> os[i].msg]

Delivered(o) == o.pub = "delivered"
Appended(o) == o.fh = "appended"

\* what the outcomes os put on the live topic and in the delivery stream
PublishedBy(os) ==
    LET d == SelectSeq(os, Delivered)
    IN  [i \in 1 .. Len(d) |-> [topic |-> d[i].topic, payload |-> d[i].payload]]

StreamedBy(os) ==
    LET a == SelectSeq(os, Appended)
    IN  [i \in 1 .. Len(a) |-> [DeliveryStreamName |-> FIREHOSE_STREAM_NAME,
                                Data |-> a[i].data]]

InClients(d) == \E i \in 1 .. Len(clients) : clients[i] = d

\* what device d did in the current round, in order
TraceOf(d) == SelectSeq(trace, LAMBDA e : e.dev = d)

\* rows 1 .. k of device d, each published once and followed by its delay
RowByRow(d, k) ==
    [i \in 1 .. 2 * k |-> [op |-> IF i % 2 = 1 THEN "pub" ELSE "sleep",
                           dev |-> d,
                           row |-> (i + 1) \div 2]]

\* the last command started a round and that round is over
RoundOver ==
    /\ lastcmd # <<>>
    /\ Dispatch(ReadCommand(prog, lastcmd)) = "send"
    /\ fpc \notin {"round", "sleep"}

\* C15: when a publish-all round is over, every device of the round whose
\* dataset has K rows has sent rows 1 .. K, once each and in file order, with
\* the pacing delay after each of them.
C15_EveryRowOnceInOrder ==
    RoundOver =>
        \A d \in Devices :
            (InClients(d) /\ dataset[d] # Missing) =>
                TraceOf(d) = RowByRow(d, dataset[d])


\* device d has rows it has not sent in the current round
RowsLeft(d) ==
    /\ dataset[d] # Missing
    /\ Len(SelectSeq(trace, LAMBDA e : e.dev = d /\ e.op = "pub")) < dataset[d]

\* C16: in a round the devices publish independently of each other and the
\* pacing delay is each device's own: while a device i that has rows left is
\* in its delay, any other device j of the round that has rows left can send
\* its next message; j does not wait for i to finish.
C16_DevicesPublishConcurrently ==
    \A i \in Devices, j \in Devices :
        (/\ fpc = "sleep"
         /\ CurDevice = i
         /\ RowsLeft(i)
         /\ i # j
         /\ InClients(j)
         /\ RowsLeft(j)) =>
            ENABLED PublishRowOf(j)

\* C17: a round in which a device has no dataset runs to its end: the device
\* sends nothing, every other device of the round sends all of its rows, the
\* publisher has not stopped and is back at the prompt.
C17_MissingDatasetSkipped ==
    (/\ RoundOver
     /\ \E d \in Devices : InClients(d) /\ dataset[d] = Missing) =>
        /\ fexc = "none"
        /\ ExitStatus = Running
        /\ fpc = "prompt"
        /\ \A d \in Devices :
              InClients(d) =>
                  TraceOf(d) = IF dataset[d] = Missing
                               THEN <<>>
                               ELSE RowByRow(d, dataset[d])


\* the start-up loop has tested the files of device d
Tested(d) == certs[d] # "unchecked"

BothExist(d) == certs[d] = "yes" /\ keys[d] = "yes"

\* connect() of device d has raised
ConnectFailed(d) == fexc = "ConnectError" /\ next_id = d

\* the start-up loop is over, or the script has stopped in it
StartupOver == fpc # "init"

\* C18 as stated: a device the start-up has looked at is connected and in the
\* client set iff its certificate and its key both exist, and with no
\* qualifying device the publisher exits non-zero before any prompt.
C18_ClientIffBothFilesExist ==
    prog = "mqtt" =>
        /\ \A d \in Devices :
              Tested(d) => (InClients(d) /\ d \in connected <=> BothExist(d))
        /\ (StartupOver /\ \A d \in Devices : Tested(d) /\ ~BothExist(d)) =>
              ExitStatus = 1 /\ cmds = 0

\* C18, amended: a device the start-up has looked at is connected and in the
\* client set iff its certificate and its key both exist and its connect()
\* call has returned; a device without them is passed over and the loop goes on
\* to the next one; the prompt is reached only with a non-empty client set,
\* and with an empty one the publisher exits non-zero without having read a
\* command.
C18_ClientIffBothFilesExistAndConnected ==
    prog = "mqtt" =>
        /\ \A d \in Devices :
              Tested(d) =>
                  (InClients(d) <=> BothExist(d) /\ ~ConnectFailed(d))
        /\ \A d \in Devices : InClients(d) => (d \in connected \/ ExitStatus = 0)
        /\ \A d \in Devices : d < next_id => Tested(d)
        /\ \A d \in Devices : (Tested(d) /\ ~BothExist(d)) => d < next_id
        /\ (StartupOver /\ fexc # "ConnectError") => next_id = device_end
        /\ (StartupOver /\ clients = <<>>) => (ExitStatus = 1 /\ cmds = 0)
        /\ (cmds > 0 \/ fpc = "prompt") => clients # <<>>

C18_Witness ==
    /\ prog = "mqtt"
    /\ fpc = "prompt"
    /\ certs[1] = "yes"
    /\ keys[1] = "no"
    /\ clients = <<2>>
    /\ connected = {2}

\* C19: when connect() of one device fails the publisher goes on: it has not
\* stopped, and once the start-up loop is over every other device with both
\* files is in the client set.
C19_ConnectFailureExcludesOnlyThatDevice ==
    \A d \in Devices :
        ConnectFailed(d) =>
            /\ ExitStatus # 1
            /\ StartupOver =>
                  \A e \in Devices \ {d} : BothExist(e) => InClients(e)


\* a line has just been read at the prompt
CommandRead == fpc = "prompt" /\ cmds' = cmds + 1

\* the devices of the client set, each once, in the order of the set
EachClientOnce == IF prog = "mqtt" THEN clients ELSE <<>>

\* what 'd' does: every connected device is disconnected exactly once, the
\* publisher ends with exit status 0 and has published nothing on the way
DisconnectsAndExits ==
    /\ disc' = disc \o EachClientOnce
    /\ connected' = {}
    /\ \A d \in connected : Len(SelectSeq(disc', LAMBDA e : e = d)) = 1
    /\ ExitStatus' = 0
    /\ trace' = trace

\* what an unrecognised command does: nothing, and the prompt comes back
NoEffectAndPrompt ==
    /\ trace' = trace
    /\ disc' = disc
    /\ connected' = connected
    /\ clients' = clients
    /\ fpc' = "prompt"
    /\ ExitStatus' = Running

\* once the publisher has ended nothing is published or disconnected any more
NothingAfterExit == ExitStatus # Running => (trace' = trace /\ disc' = disc)

DelayWithRowsLeft == fpc = "sleep" /\ RowsLeft(CurDevice)

\* the line 'd' is read and acted upon now
DisconnectAllNow == Command /\ lastcmd' = <<"d">> /\ ExitStatus' = 0

\* C21: disconnect-all takes effect while a round is in progress: when a
\* device loop is in its pacing delay with rows left to send, the command can
\* be read and acted upon at once, which releases the connections and leaves
\* the remaining rows unsent; it does not have to wait for the delay or for
\* the round to finish.
C21_DisconnectInterruptsRound ==
    (DelayWithRowsLeft /\ cmds < MaxCmds) => ENABLED DisconnectAllNow


\* C22: in one call of the handler the append to the stream is attempted only
\* when the live publish of the same record has been issued and has returned
\* normally: an append, successful or failed, goes with a delivered publish of
\* the same serialization, and a publish that raised or was never issued goes
\* with no append attempt; so whatever is in the stream is on the live topic.
C22_PublishBeforeAppend ==
    /\ \A i \in Entries :
          /\ AppendAttempted(handled[i]) =>
                /\ handled[i].pub = "delivered"
                /\ handled[i].data = PlusNewline(handled[i].payload)
                /\ handled[i].payload = json_dumps(handled[i].rec)
          /\ handled[i].pub \in {"raised", "none"} => handled[i].fh = "none"
    /\ \A j \in 1 .. Len(stream) :
          \E k \in 1 .. Len(published) :
              /\ k >= j
              /\ stream[j].Data = PlusNewline(published[k].payload)

C22_Witness ==
    /\ firehose_client = FirehoseClient
    /\ Len(handled) = 3
    /\ handled[1].pub = "raised"
    /\ handled[1].fh = "none"
    /\ handled[1].rec # NoRecord
    /\ handled[2].pub = "delivered"
    /\ handled[2].fh = "failed"
    /\ handled[3].pub = "delivered"
    /\ handled[3].fh = "appended"
    /\ Len(published) = 2
    /\ Len(stream) = 1


\* C23: the record is the evaluation of the value under "data" for an
\* enveloped message and of the event itself for a bare row, so the enveloped
\* message of the HTTPS publisher and the bare-row message of the MQTT
\* publisher, made of the same dataset row, give the same record (or both
\* none), the same payload and the same output topic.
C23_EnvelopeAndBareRowAgree ==
    /\ \A i \in Entries :
          /\ handled[i].msg = MqttPayload(ev_in) =>
                handled[i].rec = lambda_handler(handled[i].msg.body).rec
          /\ handled[i].msg.body.t = "env" =>
                handled[i].rec = lambda_handler(handled[i].msg.body.data).rec
    /\ \A i \in Entries, j \in Entries :
          (/\ handled[i].msg = MqttPayload(ev_in)
           /\ \E d \in Devices : handled[j].msg = HttpsPayload(d, ev_in)) =>
              /\ handled[i].rec = handled[j].rec
              /\ handled[i].topic = handled[j].topic
              /\ handled[i].payload = handled[j].payload
              /\ (handled[i].pub = "delivered" /\ handled[j].pub = "delivered") =>
                    \E a \in 1 .. Len(published), b \in 1 .. Len(published) :
                        a # b /\ published[a] = published[b]

C23_Witness ==
    /\ ev_in = RowNoId
    /\ Len(handled) = 2
    /\ handled[1].msg = MqttPayload(RowNoId)
    /\ handled[2].msg = HttpsPayload(2, RowNoId)
    /\ handled[1].pub = "delivered"
    /\ handled[2].pub = "delivered"
    /\ published[1] = published[2]
    /\ published[1].topic.id = [lit |-> "unknown", num |-> 0]
    /\ published[1].payload.text.emission_score = Fin(0)

====
